---- MODULE Spec2Model ----
(***************************************************************************)
(* Model of the training harness of the 2D-Positional-Encoding Vision      *)
(* Transformer repository: main.py (main, update_args, the argument        *)
(* parser) and solver.py (Solver.__init__, test_dataset, test, train,      *)
(* plot_graphs).  vit_model.py is not among the sources; the parts of it   *)
(* that are needed (configuration checks, relative-position index,         *)
(* sequence length) are modelled from the specification and marked so.     *)
(***************************************************************************)
EXTENDS Integers, Sequences, FiniteSets, TLC

VARIABLES
    run,        \* number of invocations of main() so far
    disk,       \* files of args.model_path: file name -> snapshot (or NoFile)
    args,       \* the argument record of the current invocation
    pc,         \* position of the current invocation
    err,        \* exception that ended the current invocation ("" if none)
    params,     \* identity of the model's parameter values
    mode,       \* nn.Module.training: "train" or "eval"
    loaded,     \* what torch.load in __init__ was given and returned (or NoLoad)
    calls,      \* number of Solver methods called on this Solver
    epoch,      \* loop variable of Solver.train
    batch,      \* index of the next batch of the loader being iterated
    lr,         \* optimizer.param_groups[0]["lr"]
    linLast,    \* linear_warmup.last_epoch
    cosLast,    \* cos_decay.last_epoch
    nEval,      \* evaluations completed by the current train() call
    nSave,      \* checkpoints written by the current train() call
    fwd,        \* the most recent forward pass: who issued it, in which mode
    nMetrics,   \* len(self.test_accuracies)
    plotted,    \* plot_graphs has written its two figures
    tdLoader,   \* loader that test_dataset iterates
    ret,        \* where test() returns to
    cli,        \* update_args / model construction: the parsed arguments
    built,      \* update_args / model construction: the model's configuration
    rel,        \* relative-position index computation
    vit         \* direct construction of a VisionTransformer

vars == <<run, disk, args, pc, err, params, mode, loaded, calls, epoch, batch,
          lr, linLast, cosLast, nEval, nSave, fwd, nMetrics, plotted,
          tdLoader, ret, cli, built, rel, vit>>

solverVars == <<run, disk, args, pc, err, params, mode, loaded, calls, epoch,
                batch, lr, linLast, cosLast, nEval, nSave, fwd, nMetrics,
                plotted, tdLoader, ret>>

(***************************************************************************)
(* Bounds of the model.                                                    *)
(***************************************************************************)
MaxRuns == 2
MaxEpochs == 3
MaxCalls == 3
TrainBatches == 2
TestBatches == 2
MaxImageSize == 32
MaxPatchSize == 8
MaxK == 3
MaxEmbedDim == 8
MaxHeads == 4
MaxUses == 2

(***************************************************************************)
(* Program constants.                                                      *)
(***************************************************************************)
Variants == {"none", "learn", "sinusoidal", "relative", "rope"}
DefaultNClasses == 10
LrDenominator == 2000           \* --lr default 5e-4 = 1/2000
EtaMinDenominator == 100000     \* eta_min = 1e-5 = 1/100000
TrainEvalPeriod == 25
ModelEmbedDim == 128
ModelLayers == 6
ModelHeads == 4
ModelForwardMul == 2
ModelImageSize == 32
ModelPatchSize == 4
ModelDropoutPercent == 10       \* dropout = 0.1

(***************************************************************************)
(* Exact rational arithmetic for the learning rate.                        *)
(***************************************************************************)
RECURSIVE GCD(_, _)
GCD(a, b) == IF b = 0 THEN a ELSE GCD(b, a % b)

Rat(n, d) == LET g == GCD(n, d) IN [kind |-> "exact", n |-> n \div g, d |-> d \div g]

RMul(a, b) == Rat(a.n * b.n, a.d * b.d)

RAdd(a, b) == Rat(a.n * b.d + b.n * a.d, a.d * b.d)

RSub(a, b) == Rat(a.n * b.d - b.n * a.d, a.d * b.d)

RDiv(a, b) == Rat(a.n * b.d, a.d * b.n)

One == Rat(1, 1)

PeakLr == Rat(1, LrDenominator)

EtaMin == Rat(1, EtaMinDenominator)

(***************************************************************************)
(* Checkpoint files.                                                       *)
(***************************************************************************)
LoadPath == "ViT_model.pt"

SavePath(v) == "ViT_model_" \o v \o ".pt"

Files == {LoadPath} \cup {SavePath(v) : v \in Variants}

NoParams == [src |-> -1, ver |-> 0]

NoFile == [by |-> -1, arch |-> "", params |-> NoParams]

\* a checkpoint that was not written by a training run of this program
Foreign == [by |-> 0, arch |-> "", params |-> [src |-> 0, ver |-> 0]]

\* the state_dict of the model as torch.save writes it
StateDict == [by |-> run, arch |-> args.pos_embed, params |-> params]

\* torch.load has not been called
NoLoad == [file |-> "", snap |-> NoFile]

\* the file Solver.__init__ reads the checkpoint from
CheckpointLoadPath(v) == LoadPath

NoArgs == [pos_embed |-> "", load_model |-> FALSE, epochs |-> 0, warmup_epochs |-> 0]

NoFwd == [by |-> "", mode |-> ""]


(***************************************************************************)
(* Learning-rate schedulers of Solver.train (torch.optim.lr_scheduler).    *)
(***************************************************************************)
\* start_factor of linear_warmup
WarmupStartFactor(W) == Rat(1, W)

WarmupTotalItersOff(W) == W

\* total_iters of linear_warmup
WarmupTotalIters(W) == W - 1

\* T_max of cos_decay
CosTMax(a) == a.epochs - a.warmup_epochs

\* LinearLR.get_lr in its chainable form, for last_epoch = t >= 1
LinearFactor(W, t) ==
    LET s    == WarmupStartFactor(W)
        diff == RSub(One, s)
        den  == RAdd(RMul(Rat(WarmupTotalIters(W), 1), s), RMul(Rat(t - 1, 1), diff))
    IN  RAdd(One, RDiv(diff, den))

\* the learning rate after linear_warmup.step() has moved last_epoch to t
LinearStepLr(cur, W, t) ==
    IF t > WarmupTotalIters(W) THEN cur ELSE RMul(cur, LinearFactor(W, t))

\* the learning rate after cos_decay.step() has moved last_epoch to t:
\* eta_min + (peak - eta_min) * (1 + cos(pi * t / T)) / 2, which is eta_min at
\* t = T and is kept symbolic (kind "cos") in between
CosStepLr(cur, T, t) ==
    IF t = T THEN EtaMin ELSE [kind |-> "cos", n |-> t, d |-> T]

UseWarmupOff(e, W) == e <= W

\* the test of the scheduler update at the end of an epoch
UseWarmup(e, W) == e < W

(***************************************************************************)
(* main() and Solver.__init__.                                             *)
(***************************************************************************)
ArgSet ==
    [pos_embed : Variants, load_model : BOOLEAN,
     epochs : 1..MaxEpochs, warmup_epochs : 0..MaxEpochs]

auxVars == <<cli, built, rel, vit>>

trainVars == <<epoch, batch, lr, linLast, cosLast, nEval, nSave>>

\* a fresh process: main(args) is entered, the directories are made
Enter(a) ==
    /\ run' = run + 1
    /\ args' = a
    /\ pc' = "init"
    /\ err' = ""
    /\ params' = NoParams
    /\ mode' = ""
    /\ loaded' = NoLoad
    /\ calls' = 0
    /\ epoch' = 0
    /\ batch' = 0
    /\ lr' = PeakLr
    /\ linLast' = 0
    /\ cosLast' = 0
    /\ nEval' = 0
    /\ nSave' = 0
    /\ fwd' = NoFwd
    /\ nMetrics' = 0
    /\ plotted' = FALSE
    /\ tdLoader' = ""
    /\ ret' = ""
    /\ UNCHANGED <<disk, auxVars>>

StartRun ==
    /\ pc \in {"idle", "done", "failed"}
    /\ run < MaxRuns
    /\ \E a \in ArgSet : Enter(a)

\* parameters of a newly constructed VisionTransformer
FreshParams == [src |-> run, ver |-> 0]

\* Solver.__init__ with load_model false
SolverInit ==
    /\ pc = "init"
    /\ ~args.load_model
    /\ params' = FreshParams
    /\ mode' = "train"
    /\ pc' = "ready"
    /\ UNCHANGED <<run, disk, args, err, loaded, calls, trainVars, fwd, nMetrics,
                   plotted, tdLoader, ret, auxVars>>

\* Solver.__init__ with load_model true: the checkpoint file is read and
\* load_state_dict copies its parameters into the model
SolverInitLoad ==
    /\ pc = "init"
    /\ args.load_model
    /\ disk[CheckpointLoadPath(args.pos_embed)] # NoFile
    /\ loaded' = [file |-> CheckpointLoadPath(args.pos_embed),
                  snap |-> disk[CheckpointLoadPath(args.pos_embed)]]
    /\ params' = disk[CheckpointLoadPath(args.pos_embed)].params
    /\ mode' = "train"
    /\ pc' = "ready"
    /\ UNCHANGED <<run, disk, args, err, calls, trainVars, fwd, nMetrics,
                   plotted, tdLoader, ret, auxVars>>

\* Solver.__init__ with load_model true: torch.load finds no file
SolverInitLoadMissing ==
    /\ pc = "init"
    /\ args.load_model
    /\ disk[CheckpointLoadPath(args.pos_embed)] = NoFile
    /\ loaded' = [file |-> CheckpointLoadPath(args.pos_embed), snap |-> NoFile]
    /\ params' = FreshParams
    /\ mode' = "train"
    /\ err' = "FileNotFoundError"
    /\ pc' = "failed"
    /\ UNCHANGED <<run, disk, args, calls, trainVars, fwd, nMetrics,
                   plotted, tdLoader, ret, auxVars>>

\* Solver.__init__ with load_model true: the file read does not hold the
\* parameter set of this variant and load_state_dict (strict) refuses it
SolverInitLoadMismatch ==
    /\ pc = "init"
    /\ args.load_model
    /\ disk[CheckpointLoadPath(args.pos_embed)] # NoFile
    /\ disk[CheckpointLoadPath(args.pos_embed)].arch # args.pos_embed
    /\ loaded' = [file |-> CheckpointLoadPath(args.pos_embed),
                  snap |-> disk[CheckpointLoadPath(args.pos_embed)]]
    /\ params' = FreshParams
    /\ mode' = "train"
    /\ err' = "RuntimeError"
    /\ pc' = "failed"
    /\ UNCHANGED <<run, disk, args, calls, trainVars, fwd, nMetrics,
                   plotted, tdLoader, ret, auxVars>>


(***************************************************************************)
(* Solver.train.                                                           *)
(***************************************************************************)
\* train() is entered (the caller is main or a client of the class)
EnterTrain ==
    /\ pc' = "train"
    /\ calls' = calls + 1
    /\ UNCHANGED <<run, disk, args, err, params, mode, loaded, trainVars, fwd,
                   nMetrics, plotted, tdLoader, ret, auxVars>>

\* optimizer, linear_warmup and cos_decay are constructed; constructing
\* linear_warmup multiplies the learning rate by start_factor, constructing
\* cos_decay leaves it alone
TrainSetup ==
    /\ pc = "train"
    /\ args.warmup_epochs # 0
    /\ lr' = RMul(PeakLr, WarmupStartFactor(args.warmup_epochs))
    /\ linLast' = 0
    /\ cosLast' = 0
    /\ epoch' = 0
    /\ batch' = 0
    /\ nEval' = 0
    /\ nSave' = 0
    /\ pc' = "epoch_head"
    /\ UNCHANGED <<run, disk, args, err, params, mode, loaded, calls, fwd,
                   nMetrics, plotted, tdLoader, ret, auxVars>>

\* start_factor = 1 / warmup_epochs with warmup_epochs = 0
TrainSetupZeroDivision ==
    /\ pc = "train"
    /\ args.warmup_epochs = 0
    /\ err' = "ZeroDivisionError"
    /\ pc' = "failed"
    /\ UNCHANGED <<run, disk, args, params, mode, loaded, calls, trainVars, fwd,
                   nMetrics, plotted, tdLoader, ret, auxVars>>

ModeAtEpochStartKept(m) == m

\* self.model.train() at the top of every epoch
ModeAtEpochStart(m) == "train"

EpochBegin ==
    /\ pc = "epoch_head"
    /\ epoch < args.epochs
    /\ mode' = ModeAtEpochStart(mode)
    /\ batch' = 0
    /\ pc' = "batch"
    /\ UNCHANGED <<run, disk, args, err, params, loaded, calls, epoch, lr, linLast,
                   cosLast, nEval, nSave, fwd, nMetrics, plotted, tdLoader, ret,
                   auxVars>>

TrainReturn ==
    /\ pc = "epoch_head"
    /\ epoch >= args.epochs
    /\ pc' = "ready"
    /\ UNCHANGED <<run, disk, args, err, params, mode, loaded, calls, trainVars,
                   fwd, nMetrics, plotted, tdLoader, ret, auxVars>>

\* optimizer.step(): the parameters take new values
OptimizerStep(p) == [p EXCEPT !.ver = @ + 1]

\* the loader the evaluation at the end of epoch e starts with
EpochEvalLoader(e) == IF (e + 1) % TrainEvalPeriod = 0 THEN "train" ELSE "test"

\* one batch of the training loop: forward pass, loss, backward, optimizer
\* step; after the last batch the epoch's evaluation is entered
TrainBatch ==
    /\ pc = "batch"
    /\ fwd' = [by |-> "train", mode |-> mode]
    /\ params' = OptimizerStep(params)
    /\ IF batch + 1 < TrainBatches
          THEN /\ batch' = batch + 1
               /\ UNCHANGED <<pc, tdLoader, ret>>
          ELSE /\ batch' = 0
               /\ tdLoader' = EpochEvalLoader(epoch)
               /\ ret' = "save"
               /\ pc' = "td_begin"
    /\ UNCHANGED <<run, disk, args, err, mode, loaded, calls, epoch, lr, linLast,
                   cosLast, nEval, nSave, nMetrics, plotted, auxVars>>

\* torch.save(self.model.state_dict(), .../ViT_model_{pos_embed}.pt)
SaveModel ==
    /\ pc = "save"
    /\ disk' = [disk EXCEPT ![SavePath(args.pos_embed)] = StateDict]
    /\ nSave' = nSave + 1
    /\ pc' = "sched"
    /\ UNCHANGED <<run, args, err, params, mode, loaded, calls, epoch, batch, lr,
                   linLast, cosLast, nEval, fwd, nMetrics, plotted, tdLoader, ret,
                   auxVars>>

\* end of an epoch of the warmup: linear_warmup.step(), the metrics are
\* appended and the loop moves on
LinearWarmupStep ==
    /\ pc = "sched"
    /\ UseWarmup(epoch, args.warmup_epochs)
    /\ linLast' = linLast + 1
    /\ lr' = LinearStepLr(lr, args.warmup_epochs, linLast + 1)
    /\ nMetrics' = nMetrics + 1
    /\ epoch' = epoch + 1
    /\ pc' = "epoch_head"
    /\ UNCHANGED <<run, disk, args, err, params, mode, loaded, calls, batch,
                   cosLast, nEval, nSave, fwd, plotted, tdLoader, ret, auxVars>>

\* end of a later epoch: cos_decay.step()
CosDecayStep ==
    /\ pc = "sched"
    /\ ~UseWarmup(epoch, args.warmup_epochs)
    /\ cosLast' = cosLast + 1
    /\ lr' = CosStepLr(lr, CosTMax(args), cosLast + 1)
    /\ nMetrics' = nMetrics + 1
    /\ epoch' = epoch + 1
    /\ pc' = "epoch_head"
    /\ UNCHANGED <<run, disk, args, err, params, mode, loaded, calls, batch,
                   linLast, nEval, nSave, fwd, plotted, tdLoader, ret, auxVars>>

(***************************************************************************)
(* Solver.test, Solver.test_dataset, Solver.plot_graphs.                   *)
(***************************************************************************)
\* test(train) is entered from outside train()
EnterTest(train) ==
    /\ tdLoader' = IF train THEN "train" ELSE "test"
    /\ ret' = "ready"
    /\ pc' = "td_begin"
    /\ calls' = calls + 1
    /\ UNCHANGED <<run, disk, args, err, params, mode, loaded, trainVars, fwd,
                   nMetrics, plotted, auxVars>>

LoaderLen(l) == IF l = "train" THEN TrainBatches ELSE TestBatches

\* test_dataset is entered: self.model.eval()
TestDatasetBegin ==
    /\ pc = "td_begin"
    /\ mode' = "eval"
    /\ batch' = 0
    /\ pc' = "td_loop"
    /\ UNCHANGED <<run, disk, args, err, params, loaded, calls, epoch, lr, linLast,
                   cosLast, nEval, nSave, fwd, nMetrics, plotted, tdLoader, ret,
                   auxVars>>

ParamsAfterEvalStepped(p) == [p EXCEPT !.ver = @ + 1]

\* the parameters after a forward pass under torch.no_grad()
ParamsAfterEval(p) == p

\* one batch of test_dataset; after the last batch test_dataset returns, and
\* test() either goes on to the test loader or returns to its caller
TestForward ==
    /\ pc = "td_loop"
    /\ fwd' = [by |-> "test_dataset", mode |-> mode]
    /\ params' = ParamsAfterEval(params)
    /\ IF batch + 1 < LoaderLen(tdLoader)
          THEN /\ batch' = batch + 1
               /\ UNCHANGED <<pc, tdLoader, ret, nEval>>
          ELSE /\ batch' = 0
               /\ IF tdLoader = "train"
                     THEN /\ tdLoader' = "test"
                          /\ pc' = "td_begin"
                          /\ UNCHANGED <<ret, nEval>>
                     ELSE /\ tdLoader' = ""
                          /\ pc' = ret
                          /\ ret' = ""
                          /\ nEval' = IF ret = "save" THEN nEval + 1 ELSE nEval
    /\ UNCHANGED <<run, disk, args, err, mode, loaded, calls, epoch, lr, linLast,
                   cosLast, nSave, nMetrics, plotted, auxVars>>

\* the parameters after plot_graphs
ParamsAfterPlot(p) == p

\* plot_graphs(): the two figures are written to output_path
EnterPlotGraphs ==
    /\ plotted' = TRUE
    /\ params' = ParamsAfterPlot(params)
    /\ calls' = calls + 1
    /\ UNCHANGED <<run, disk, args, pc, err, mode, loaded, trainVars, fwd,
                   nMetrics, tdLoader, ret, auxVars>>

(***************************************************************************)
(* main(): Solver(args); train(); plot_graphs(); test(train=True).         *)
(***************************************************************************)
MainTrain == pc = "ready" /\ calls = 0 /\ EnterTrain

MainPlotGraphs == pc = "ready" /\ calls = 1 /\ EnterPlotGraphs

MainTest == pc = "ready" /\ calls = 2 /\ EnterTest(TRUE)

MainReturn ==
    /\ pc = "ready"
    /\ calls = 3
    /\ pc' = "done"
    /\ UNCHANGED <<run, disk, args, err, params, mode, loaded, calls, trainVars,
                   fwd, nMetrics, plotted, tdLoader, ret, auxVars>>

(***************************************************************************)
(* A client of the Solver class calling its methods in any order.          *)
(***************************************************************************)
ApiConstruct ==
    /\ pc = "idle"
    /\ run = 0
    /\ \E a \in ArgSet : Enter(a)

ApiTrain == pc = "ready" /\ calls < MaxCalls /\ EnterTrain

ApiPlotGraphs == pc = "ready" /\ calls < MaxCalls /\ EnterPlotGraphs

ApiTest == pc = "ready" /\ calls < MaxCalls /\ \E t \in BOOLEAN : EnterTest(t)

(***************************************************************************)
(* Specifications of the harness.                                          *)
(***************************************************************************)
NoAux == [stage |-> "off"]

InitSolver ==
    /\ run = 0
    /\ args = NoArgs
    /\ pc = "idle"
    /\ err = ""
    /\ params = NoParams
    /\ mode = ""
    /\ loaded = NoLoad
    /\ calls = 0
    /\ epoch = 0
    /\ batch = 0
    /\ lr = PeakLr
    /\ linLast = 0
    /\ cosLast = 0
    /\ nEval = 0
    /\ nSave = 0
    /\ fwd = NoFwd
    /\ nMetrics = 0
    /\ plotted = FALSE
    /\ tdLoader = ""
    /\ ret = ""

AuxOff == cli = NoAux /\ built = NoAux /\ rel = NoAux /\ vit = NoAux

\* the checkpoint directory holds no checkpoint of this program yet; a file
\* ViT_model.pt of other origin may lie in it
Init ==
    /\ InitSolver
    /\ disk \in {[f \in Files |-> NoFile],
                 [f \in Files |-> IF f = LoadPath THEN Foreign ELSE NoFile]}
    /\ AuxOff

SolverSteps ==
    \/ SolverInit
    \/ SolverInitLoad
    \/ SolverInitLoadMissing
    \/ SolverInitLoadMismatch
    \/ TrainSetup
    \/ TrainSetupZeroDivision
    \/ EpochBegin
    \/ TrainBatch
    \/ TestDatasetBegin
    \/ TestForward
    \/ SaveModel
    \/ LinearWarmupStep
    \/ CosDecayStep
    \/ TrainReturn

Next ==
    \/ StartRun
    \/ SolverSteps
    \/ MainTrain
    \/ MainPlotGraphs
    \/ MainTest
    \/ MainReturn

Spec == Init /\ [][Next]_vars

NextApi ==
    \/ ApiConstruct
    \/ SolverSteps
    \/ ApiTrain
    \/ ApiPlotGraphs
    \/ ApiTest

SpecApi == Init /\ [][NextApi]_vars


(***************************************************************************)
(* update_args and the construction of the model in Solver.__init__.       *)
(***************************************************************************)
CliSet ==
    [stage : {"parsed"}, image_size : 1..MaxImageSize, patch_size : 1..MaxPatchSize,
     n_classes : {DefaultNClasses, 100}, pos_embed : Variants,
     max_relative_distance : 0..MaxK, n_patches : {-1}]

NPatchesDoubled(image_size, patch_size) == (image_size \div patch_size) * 2

\* args.n_patches = (args.image_size // args.patch_size) ** 2
NPatches(image_size, patch_size) ==
    (image_size \div patch_size) * (image_size \div patch_size)

\* length of the sequence the encoder sees: the patches and the
\* classification token
SeqLen(n_patches) == n_patches + 1

\* the keyword arguments of VisionTransformer(...) in Solver.__init__
SolverModelConfig(a) ==
    [stage |-> "built", embed_dim |-> ModelEmbedDim, n_layers |-> ModelLayers,
     n_attention_heads |-> ModelHeads, forward_mul |-> ModelForwardMul,
     image_size |-> ModelImageSize, patch_size |-> ModelPatchSize,
     dropout |-> ModelDropoutPercent, n_classes |-> a.n_classes,
     pos_embed |-> a.pos_embed, max_relative_distance |-> a.max_relative_distance]

\* number of patches of the model that was built
BuiltNPatches == NPatches(built.image_size, built.patch_size)

UpdateArgs ==
    /\ cli.stage = "parsed"
    /\ cli' = [cli EXCEPT !.stage = "updated",
                          !.n_patches = NPatches(cli.image_size, cli.patch_size)]
    /\ UNCHANGED <<solverVars, built, rel, vit>>

BuildModel ==
    /\ cli.stage = "updated"
    /\ built.stage = "off"
    /\ built' = SolverModelConfig(cli)
    /\ UNCHANGED <<solverVars, cli, rel, vit>>

InitArgs ==
    /\ InitSolver
    /\ disk = [f \in Files |-> NoFile]
    /\ cli \in CliSet
    /\ built = NoAux
    /\ rel = NoAux
    /\ vit = NoAux

NextArgs == UpdateArgs \/ BuildModel

SpecArgs == InitArgs /\ [][NextArgs]_vars

(***************************************************************************)
(* Relative-position index of the "relative" variant.                      *)
(***************************************************************************)
ClipWrap(x, lo, hi) == lo + ((x - lo) % (hi - lo + 1))

\* clip(x, lo, hi)
Clip(x, lo, hi) == IF x < lo THEN lo ELSE IF x > hi THEN hi ELSE x

\* index into the table of 2k + 1 relative embeddings for positions (i, j)
RelativeIndex(i, j, k) == Clip(j - i, -k, k) + k

\* positions of the sequence of the model Solver builds: 0 is the
\* classification token
Positions == 0..NPatches(ModelImageSize, ModelPatchSize)

ComputeRelativeIndex ==
    /\ rel.stage = "in"
    /\ rel' = [rel EXCEPT !.stage = "out", !.idx = RelativeIndex(rel.i, rel.j, rel.k)]
    /\ UNCHANGED <<solverVars, cli, built, vit>>

InitRel ==
    /\ InitSolver
    /\ disk = [f \in Files |-> NoFile]
    /\ rel \in [stage : {"in"}, k : 0..MaxK, i : Positions, j : Positions, idx : {-1}]
    /\ cli = NoAux
    /\ built = NoAux
    /\ vit = NoAux

NextRel == ComputeRelativeIndex

SpecRel == InitRel /\ [][NextRel]_vars

(***************************************************************************)
(* Construction of a VisionTransformer from a configuration record.        *)
(***************************************************************************)
ConfigInvalidNoParity(c) ==
    \/ c.embed_dim % c.n_attention_heads # 0
    \/ c.pos_embed \in {"relative", "rope"} /\ c.embed_dim \div c.n_attention_heads < 2

\* the configurations the constructor refuses with a ConfigurationError
ConfigInvalid(c) ==
    \/ c.embed_dim % c.n_attention_heads # 0
    \/ c.pos_embed \in {"sinusoidal", "rope"} /\ c.embed_dim % 2 # 0
    \/ c.pos_embed \in {"relative", "rope"} /\ c.embed_dim \div c.n_attention_heads < 2

EmbedDims == (1..MaxEmbedDim) \cup {127, ModelEmbedDim}

VitConfigs ==
    [stage : {"new"}, embed_dim : EmbedDims, n_attention_heads : 1..MaxHeads,
     pos_embed : Variants, forwards : {0}, steps : {0}, saves : {0}]

VitConstruct ==
    /\ vit.stage = "new"
    /\ ~ConfigInvalid(vit)
    /\ vit' = [vit EXCEPT !.stage = "constructed"]
    /\ UNCHANGED <<solverVars, cli, built, rel>>

VitConstructError ==
    /\ vit.stage = "new"
    /\ ConfigInvalid(vit)
    /\ vit' = [vit EXCEPT !.stage = "ConfigurationError"]
    /\ UNCHANGED <<solverVars, cli, built, rel>>

\* forward(batch_of_images) on the constructed model
VitForward ==
    /\ vit.stage = "constructed"
    /\ vit.forwards < MaxUses
    /\ vit' = [vit EXCEPT !.forwards = @ + 1]
    /\ UNCHANGED <<solverVars, cli, built, rel>>

\* an optimizer step on the constructed model's parameters, after a forward pass
VitOptimizerStep ==
    /\ vit.stage = "constructed"
    /\ vit.steps < vit.forwards
    /\ vit' = [vit EXCEPT !.steps = @ + 1]
    /\ UNCHANGED <<solverVars, cli, built, rel>>

\* the constructed model's parameter snapshot is written to a checkpoint
VitCheckpoint ==
    /\ vit.stage = "constructed"
    /\ vit.saves < MaxUses
    /\ vit' = [vit EXCEPT !.saves = @ + 1]
    /\ UNCHANGED <<solverVars, cli, built, rel>>

InitVit ==
    /\ InitSolver
    /\ disk = [f \in Files |-> NoFile]
    /\ vit \in VitConfigs
    /\ cli = NoAux
    /\ built = NoAux
    /\ rel = NoAux

NextVit ==
    \/ VitConstruct
    \/ VitConstructError
    \/ VitForward
    \/ VitOptimizerStep
    \/ VitCheckpoint

SpecVit == InitVit /\ [][NextVit]_vars


(***************************************************************************)
(* Properties.                                                             *)
(***************************************************************************)
\* Solver.__init__ of the current invocation is over (it returned or raised)
\* and no method of the Solver has been called yet
JustConstructed == pc \in {"ready", "failed"} /\ calls = 0

\* the checkpoint of the current variant, as train() left it on the disk
SavedCheckpoint == disk[SavePath(args.pos_embed)]

\* C1: checkpoint round trip. Once train() has saved a checkpoint for
\* pos_embed = v, a Solver constructed with load_model = True and the same
\* pos_embed is constructed without error and holds exactly the saved
\* parameter snapshot (hence gives the saved model's logits on any input).
C1_RoundTrip ==
    (JustConstructed /\ args.load_model /\ SavedCheckpoint # NoFile)
        => /\ err = ""
           /\ loaded.snap = SavedCheckpoint
           /\ params = SavedCheckpoint.params

\* C2: the checkpoint is keyed by variant name on both save and load. Every
\* checkpoint file a training run writes is named after that run's variant,
\* a Solver constructed with load_model = True reads the file named after
\* its own variant, and what it reads was never written by a training run
\* of another variant.
C2_KeyedByVariant ==
    /\ \A v \in Variants :
          disk[SavePath(v)] # NoFile => disk[SavePath(v)].arch = v
    /\ loaded # NoLoad =>
          /\ loaded.file = SavePath(args.pos_embed)
          /\ loaded.snap.by >= 1 => loaded.snap.arch = args.pos_embed

\* C3: the parameters are written only by the optimizer step of train() and
\* by the construction of the Solver (initialisation, optional checkpoint
\* load): no step of test_dataset, test or plot_graphs, wherever in a run it
\* is taken, changes them.
C3_ParamsFrame == [][params' # params => pc \in {"init", "batch"}]_vars

\* test_dataset and plot_graphs have both run on a model that was trained
C3_Witness ==
    /\ pc = "ready"
    /\ plotted
    /\ fwd.by = "test_dataset"
    /\ params.ver > 0

\* C4: every forward pass issued by test_dataset runs in evaluation mode and
\* every forward pass issued by the training loop runs in training mode,
\* also in the epochs that follow an evaluation.
C4_ModeInvariant ==
    /\ fwd.by = "test_dataset" => fwd.mode = "eval"
    /\ fwd.by = "train" => fwd.mode = "train"

\* a training forward pass of a later epoch, after an evaluation has run
C4_Witness == fwd.by = "train" /\ epoch >= 1 /\ nEval >= 1 /\ fwd.mode = "train"

\* C5: the model Solver constructs takes its configuration from args: its
\* image_size, patch_size, n_classes, pos_embed and max_relative_distance
\* are those of args, and its patch count is args.n_patches.
C5_ModelFromArgs ==
    built.stage = "built"
        => /\ built.image_size = cli.image_size
           /\ built.patch_size = cli.patch_size
           /\ built.n_classes = cli.n_classes
           /\ built.pos_embed = cli.pos_embed
           /\ built.max_relative_distance = cli.max_relative_distance
           /\ BuiltNPatches = cli.n_patches

\* C6 as stated: for every positive image_size and patch_size, n_patches is
\* (image_size / patch_size)^2, i.e. n_patches * patch_size^2 = image_size^2,
\* and the sequence length is n_patches + 1.
C6_ExactQuotient ==
    cli.stage # "off" /\ cli.stage # "parsed"
        => /\ cli.n_patches * cli.patch_size * cli.patch_size
                = cli.image_size * cli.image_size
           /\ SeqLen(cli.n_patches) = cli.n_patches + 1

\* C6 amended: n_patches is q^2 for q the whole number of patches that fit
\* in a side (q * patch_size <= image_size < (q + 1) * patch_size); it is
\* (image_size / patch_size)^2 exactly when patch_size divides image_size;
\* the sequence length for that patch count is n_patches + 1; for image_size
\* = 32 and patch_size = 4 it is 64 and 65, which is also the number of
\* positions of the model that is built.
C6_FloorQuotient ==
    cli.stage # "off" /\ cli.stage # "parsed"
        => /\ \E q \in 0..cli.image_size :
                /\ q * cli.patch_size <= cli.image_size
                /\ cli.image_size < (q + 1) * cli.patch_size
                /\ cli.n_patches = q * q
           /\ (cli.image_size % cli.patch_size = 0)
                <=> (cli.n_patches * cli.patch_size * cli.patch_size
                        = cli.image_size * cli.image_size)
           /\ SeqLen(cli.n_patches) = cli.n_patches + 1
           /\ (cli.image_size = 32 /\ cli.patch_size = 4)
                => /\ cli.n_patches = 64
                   /\ SeqLen(cli.n_patches) = 65
                   /\ built.stage = "built" => SeqLen(BuiltNPatches) = 65

\* update_args has run on sizes that do not divide, and on 32 and 4
C6_Witness ==
    /\ cli.stage = "updated"
    /\ built.stage = "built"
    /\ cli.image_size = 32
    /\ cli.patch_size \in {4, 5}

\* C7: the relative-position index of (i, j) under k = max_relative_distance
\* lies in 0..2k, is 2k for every distance j - i >= k, 0 for every distance
\* j - i <= -k, and j - i + k in between.
C7_RelativeIndex ==
    rel.stage = "out"
        => /\ rel.idx \in 0..(2 * rel.k)
           /\ rel.j - rel.i >= rel.k => rel.idx = 2 * rel.k
           /\ rel.j - rel.i <= -rel.k => rel.idx = 0
           /\ (-rel.k < rel.j - rel.i /\ rel.j - rel.i < rel.k)
                => rel.idx = rel.j - rel.i + rel.k

\* k = 2 and distance 5: the index is the boundary index 4, that of distance 2
C7_Witness ==
    /\ rel.stage = "out"
    /\ rel.k = 2
    /\ rel.j - rel.i = 5
    /\ rel.idx = RelativeIndex(0, 2, 2)

\* C8: a configuration with embed_dim not divisible by n_attention_heads,
\* with odd embed_dim under sinusoidal or rope, or with head_dim < 2 under
\* rope ends construction in a ConfigurationError, and no forward pass,
\* optimizer step or checkpoint write happens unless construction succeeded.
C8_ConfigurationError ==
    LET refused ==
            \/ vit.embed_dim % vit.n_attention_heads # 0
            \/ vit.pos_embed \in {"sinusoidal", "rope"} /\ vit.embed_dim % 2 = 1
            \/ vit.pos_embed = "rope" /\ vit.embed_dim \div vit.n_attention_heads < 2
    IN  vit.stage # "off"
            => /\ (refused /\ vit.stage # "new") => vit.stage = "ConfigurationError"
               /\ vit.forwards + vit.steps + vit.saves > 0
                    => vit.stage = "constructed" /\ ~refused

\* embed_dim = 127 under sinusoidal (one head, so that only the parity is at
\* fault) was refused before any use of the model
C8_Witness ==
    /\ vit.stage = "ConfigurationError"
    /\ vit.embed_dim = 127
    /\ vit.n_attention_heads = 1
    /\ vit.pos_embed = "sinusoidal"
    /\ vit.forwards = 0

InTrain == pc \in {"epoch_head", "batch", "td_begin", "td_loop", "save", "sched"} /\ ret # "ready"

Min(a, b) == IF a < b THEN a ELSE b

\* C9: with 1 <= warmup_epochs <= epochs, exactly one scheduler is stepped at
\* the end of each epoch, after that epoch's evaluation and checkpoint save;
\* linear_warmup is stepped in the epochs < warmup_epochs and cos_decay in
\* the later ones, every warmup step comes before every cosine step, and
\* when train() has returned cos_decay has been stepped epochs -
\* warmup_epochs = T_max times, which ends its decay at eta_min.
C9_ScheduleOrder ==
    /\ [](  (1 <= args.warmup_epochs /\ args.warmup_epochs <= args.epochs)
            => /\ InTrain
                    => /\ linLast + cosLast = epoch
                       /\ linLast = Min(epoch, args.warmup_epochs)
                       /\ cosLast = epoch - linLast
               /\ (pc = "ready" /\ calls >= 1)
                    => /\ epoch = args.epochs
                       /\ linLast = args.warmup_epochs
                       /\ cosLast = args.epochs - args.warmup_epochs
                       /\ cosLast = CosTMax(args)
                       /\ cosLast > 0 => lr = EtaMin )
    /\ [][ (1 <= args.warmup_epochs /\ args.warmup_epochs <= args.epochs)
            => /\ (linLast' = linLast + 1 \/ cosLast' = cosLast + 1)
                    => /\ pc = "sched"
                       /\ nEval = epoch + 1
                       /\ nSave = epoch + 1
                       /\ SavedCheckpoint.params = params
                       /\ epoch' = epoch + 1
                       /\ linLast' + cosLast' = linLast + cosLast + 1
               /\ linLast' = linLast + 1 => epoch < args.warmup_epochs /\ cosLast = 0
               /\ cosLast' = cosLast + 1 => epoch >= args.warmup_epochs
               /\ (InTrain /\ epoch' # epoch)
                    => (linLast' = linLast + 1 \/ cosLast' = cosLast + 1) ]_vars

\* train() has returned after two warmup steps and at least one cosine step
C9_Witness ==
    /\ pc = "ready"
    /\ calls >= 1
    /\ linLast >= 2
    /\ cosLast >= 1
    /\ cosLast = CosTMax(args)

\* C10: with warmup_epochs = W >= 2 the batches of epoch e < W train at
\* lr * (e + 1) / W, and those of epoch W still train at the peak lr.
C10_WarmupValue ==
    (InTrain /\ pc # "epoch_head" /\ args.warmup_epochs >= 2 /\ epoch <= args.warmup_epochs)
        => /\ lr.kind = "exact"
           /\ lr.n * args.warmup_epochs * LrDenominator
                = lr.d * Min(epoch + 1, args.warmup_epochs)

\* a batch of epoch W trains at the peak rate, after W warmup steps
C10_Witness ==
    /\ pc = "batch"
    /\ args.warmup_epochs >= 2
    /\ epoch = args.warmup_epochs
    /\ linLast = args.warmup_epochs
    /\ lr = PeakLr

====
